---- MODULE Spec2Model ----
(***************************************************************************)
(* Model of the lume-algo matching engine (src/src/core): GeoMath,         *)
(* CandidateFilter, PreferenceScorer, ScoreCombiner and the Matcher        *)
(* orchestrator; concurrent find_matches calls on one Matcher; and the     *)
(* request handlers of src/src/routes/matches.rs with the stores behind    *)
(* them (PostgreSQL seen_profiles, the two cache tiers); and the calls of   *)
(* concurrent clients on one CacheManager (src/src/services/cache.rs),     *)
(* step by step.                                                           *)
(*                                                                         *)
(* Number representation.  The code computes in f64; the model computes in *)
(* integers:                                                               *)
(*   - coordinates are centidegrees (1 = 0.01 degree);                     *)
(*   - distances are metres;                                               *)
(*   - sub-scores in [0,1] are multiples of 1/SCALE;                       *)
(*   - weights are hundredths (0.35 is 35);                                *)
(*   - a match score in [0,100] is sub-score units times hundredths, so    *)
(*     100.0 is 100 * SCALE and 5.0 is 5 * SCALE.                          *)
(* Divisions round down to the unit; the inputs are chosen so that the     *)
(* comparisons the code makes do not sit inside that rounding.             *)
(* u8 / u16 arithmetic keeps its width: an overflowing operation wraps     *)
(* (release profile) or panics (debug profile, overflow checks on).        *)
(***************************************************************************)
EXTENDS Integers, Sequences, FiniteSets, TLC

VARIABLES
    weights,      \* Matcher.weights, set by Matcher::new and never written again
    pc,           \* position of the call in flight
    preferences,  \* argument: &UserPreferences
    candidates,   \* argument: Vec<UserProfile> (one profile for a scoring call)
    limit,        \* argument: usize
    result,       \* MatchResult returned by find_matches
    score_out,    \* value returned by calculate_match_score, with its locals
    geo_pc,       \* position of a call of the distance module
    geo_args,     \* its arguments
    geo_out,      \* its return value
    calls,        \* per concurrent caller: the arguments of its find_matches call
    call_pc,      \* per concurrent caller: position of its call
    evaluated,    \* per call: the candidates evaluated so far, in completion order
    call_result,  \* per concurrent caller: the MatchResult returned
    seen_profiles,\* PostgreSQL table seen_profiles: the (user_id, target_user_id) keys
    l1_cache,     \* CacheManager.l1_cache (in-memory), per key
    redis,        \* the shared Redis store behind CacheManager.redis, per key
    last,         \* the request or cache operation completed last, with its outcome
    cache_ops,    \* per cache client: the CacheManager call it has in flight
    cache_log     \* the starts and returns of the CacheManager calls, in order

\* the state of a direct call of the matching core
coreVars == <<weights, pc, preferences, candidates, limit, result, score_out>>

\* the state of a direct call of core/distance.rs
geoVars == <<geo_pc, geo_args, geo_out>>

\* the state of concurrent find_matches calls on one Matcher
callVars == <<calls, call_pc, evaluated, call_result>>

\* the stores behind AppState and the last response
serviceVars == <<seen_profiles, l1_cache, redis, last, cache_ops, cache_log>>

\* the CacheManager calls of the cache clients
clientVars == <<cache_ops, cache_log>>

vars == <<coreVars, geoVars, callVars, serviceVars>>

----------------------------------------------------------------------------
(* Units and program constants *)

\* resolution of a sub-score: 1.0 is SCALE units
SCALE == 100 * 100

\* distance.rs: const EARTH_RADIUS_KM: f64 = 6371.0
EARTH_RADIUS_KM == 6371

\* distance.rs: "1 degree latitude is approximately 111 km"
KM_PER_DEGREE == 111

\* matcher.rs: if score >= 5.0
MIN_SCORE == 5

\* filters.rs: shared_count.min(5.0)
SPORTS_CAP == 5

\* widths of the integer types of the age and height fields
U8_MOD == 2^8
U16_MOD == 2^16

Min(a, b) == IF a <= b THEN a ELSE b
Max(a, b) == IF a >= b THEN a ELSE b
Abs(a) == IF a >= 0 THEN a ELSE -a

\* s.contains(x) on a Vec
Contains(s, x) == \E i \in 1..Len(s) : s[i] = x

\* floor of the square root, by bisection on [lo, hi]
RECURSIVE ISqrtIn(_, _, _)
ISqrtIn(n, lo, hi) ==
    IF lo >= hi THEN lo
    ELSE LET mid == (lo + hi + 1) \div 2
         IN  IF mid * mid <= n THEN ISqrtIn(n, mid, hi) ELSE ISqrtIn(n, lo, mid - 1)

ISqrt(n) == ISqrtIn(n, 0, 46340)

\* e^x for x >= 0 in SCALE units: the power series, summed until a term vanishes
RECURSIVE ExpSeries(_, _, _, _)
ExpSeries(x, n, term, acc) ==
    IF term = 0 THEN acc
    ELSE ExpSeries(x, n + 1, (term * x) \div (n * SCALE), acc + term)

\* f64::exp of a non-positive argument -x, in SCALE units
ExpNeg(x) == (SCALE * SCALE) \div ExpSeries(x, 1, SCALE, 0)

----------------------------------------------------------------------------
(* models/domain.rs *)

\* Option<bool> is one of "None", "SomeTrue", "SomeFalse"
verified(profile) == profile.is_verified = "SomeTrue"

timeout(profile) == profile.is_timeout = "SomeTrue"

\* ScoringWeights::default()
DefaultWeights ==
    [distance |-> 35, age |-> 20, sports |-> 25, verified |-> 10, height |-> 10]

----------------------------------------------------------------------------
(* core/distance.rs *)

\* metres per degree of arc on the sphere: EARTH_RADIUS_KM * 1000 * pi / 180,
\* with pi = 355/113
MetresPerDegree == (EARTH_RADIUS_KM * 355 * 100) \div (113 * 18)

\* f64::to_radians of an angle in centidegrees, in SCALE units (pi = 3.1416)
ToRadians(cdeg) == (cdeg * 31416) \div 18000

\* cos x = 1 - x^2/2! + x^4/4! - ..., summed until a term vanishes; x2 is x^2 and
\* term the size of the n-th term, both in SCALE units
RECURSIVE CosSeries(_, _, _, _)
CosSeries(x2, n, term, acc) ==
    IF term = 0 THEN acc
    ELSE CosSeries(x2, n + 1, (term * x2) \div ((2 * n + 1) * (2 * n + 2) * SCALE),
                   IF n % 2 = 0 THEN acc + term ELSE acc - term)

\* lat.to_radians().cos() for a latitude in [-90, 90] degrees, in SCALE units
Cos(lat) ==
    LET x == ToRadians(Abs(lat))
    IN  CosSeries((x * x) \div SCALE, 0, SCALE, 0)

\* faulty variant of haversine_distance: cos(lat1) is used for both points
haversine_distance_CosFirst(lat1, lon1, lat2, lon2) ==
    LET delta_lat == lat2 - lat1
        delta_lon == lon2 - lon1
        cc == (Cos(lat1) * Cos(lat1)) \div SCALE
        c == ISqrt((delta_lat * delta_lat + (cc * delta_lon * delta_lon) \div SCALE)
                   * 10000)
    IN  (c * MetresPerDegree) \div 10000

\* haversine_distance, in metres, for points within three degrees of each other.
\* For such points sin(x/2) = x/2 to within 1 part in 10000, so
\* a = (dlat^2 + cos(lat1) * cos(lat2) * dlon^2)/4 and
\* c = 2*atan2(sqrt a, sqrt(1-a)) = sqrt(dlat^2 + cos(lat1) * cos(lat2) * dlon^2)
\* (radians).  The square root is taken in units of 0.0001 degree.
haversine_distance(lat1, lon1, lat2, lon2) ==
    LET delta_lat == lat2 - lat1
        delta_lon == lon2 - lon1
        cc == (Cos(lat1) * Cos(lat2)) \div SCALE
        c == ISqrt((delta_lat * delta_lat + (cc * delta_lon * delta_lon) \div SCALE)
                   * 10000)
    IN  (c * MetresPerDegree) \div 10000

\* lat.to_radians().cos().abs() in SCALE units.  The f64 nearest to pi/2 has the
\* cosine 6.1e-17, not 0: the smallest positive unit stands for it, so that the
\* division below is defined as it is in the code.
CosAbs(lat) == Max(Abs(Cos(lat)), 1)

\* calculate_bounding_box.  lat, lon in centidegrees, radius_km in km.  The four
\* edges are kept multiplied by KM_PER_DEGREE, so that lat +- radius/111 is exact.
calculate_bounding_box(lat, lon, radius_km) ==
    LET lat_delta == radius_km * 100
        lon_delta == (radius_km * 100 * SCALE) \div CosAbs(lat)
    IN  [min_lat |-> lat * KM_PER_DEGREE - lat_delta,
         max_lat |-> lat * KM_PER_DEGREE + lat_delta,
         min_lon |-> lon * KM_PER_DEGREE - lon_delta,
         max_lon |-> lon * KM_PER_DEGREE + lon_delta]

\* faulty variant of is_within_bounding_box: the edges are not part of the box
is_within_bounding_box_Exclusive(lat, lon, bbox) ==
    /\ lat * KM_PER_DEGREE > bbox.min_lat
    /\ lat * KM_PER_DEGREE < bbox.max_lat
    /\ lon * KM_PER_DEGREE > bbox.min_lon
    /\ lon * KM_PER_DEGREE < bbox.max_lon

\* is_within_bounding_box: inclusive on both axes
is_within_bounding_box(lat, lon, bbox) ==
    /\ lat * KM_PER_DEGREE >= bbox.min_lat
    /\ lat * KM_PER_DEGREE <= bbox.max_lat
    /\ lon * KM_PER_DEGREE >= bbox.min_lon
    /\ lon * KM_PER_DEGREE <= bbox.max_lon

----------------------------------------------------------------------------
(* core/filters.rs *)

\* faulty variant of matches_demographics: the timeout flag is not looked at
matches_demographics_NoTimeout(profile, prefs) ==
    IF ~profile.is_active THEN FALSE
    ELSE IF /\ Len(prefs.preferred_genders) # 0
            /\ ~Contains(prefs.preferred_genders, profile.gender) THEN FALSE
    ELSE IF profile.age < prefs.min_age \/ profile.age > prefs.max_age THEN FALSE
    ELSE IF \/ profile.height_cm < prefs.min_height_cm
            \/ profile.height_cm > prefs.max_height_cm THEN FALSE
    ELSE TRUE

\* matches_demographics
matches_demographics(profile, prefs) ==
    IF ~profile.is_active \/ timeout(profile) THEN FALSE
    ELSE IF /\ Len(prefs.preferred_genders) # 0
            /\ ~Contains(prefs.preferred_genders, profile.gender) THEN FALSE
    ELSE IF profile.age < prefs.min_age \/ profile.age > prefs.max_age THEN FALSE
    ELSE IF \/ profile.height_cm < prefs.min_height_cm
            \/ profile.height_cm > prefs.max_height_cm THEN FALSE
    ELSE TRUE

\* the loop of calculate_preference_score: one entry per element of the profile's
\* sports list that the preferences' list contains
RECURSIVE SharedSports(_, _)
SharedSports(sports, preferred) ==
    IF sports = <<>> THEN <<>>
    ELSE IF Contains(preferred, Head(sports))
         THEN <<Head(sports)>> \o SharedSports(Tail(sports), preferred)
         ELSE SharedSports(Tail(sports), preferred)

\* faulty variant of calculate_preference_score: the sports term is not capped
calculate_preference_score_NoCap(profile, prefs) ==
    LET hair == IF \/ Len(prefs.preferred_hair_colors) = 0
                   \/ Contains(prefs.preferred_hair_colors, profile.hair_color)
                THEN SCALE ELSE 0
        shared_sports == SharedSports(profile.sports_preferences, prefs.preferred_sports)
        shared_count == Len(shared_sports)
        sports_score == IF shared_count > 0
                        THEN (shared_count * 2 * SCALE) \div SPORTS_CAP
                        ELSE 0
        score == hair + sports_score
        max_score == 3
    IN  [normalized |-> score \div max_score, shared_sports |-> shared_sports]

\* calculate_preference_score: (normalized, shared_sports)
calculate_preference_score(profile, prefs) ==
    LET hair == IF \/ Len(prefs.preferred_hair_colors) = 0
                   \/ Contains(prefs.preferred_hair_colors, profile.hair_color)
                THEN SCALE ELSE 0
        shared_sports == SharedSports(profile.sports_preferences, prefs.preferred_sports)
        shared_count == Len(shared_sports)
        sports_score == IF shared_count > 0
                        THEN (Min(shared_count, SPORTS_CAP) * 2 * SCALE) \div SPORTS_CAP
                        ELSE 0
        score == hair + sports_score
        max_score == 3
    IN  [normalized |-> score \div max_score, shared_sports |-> shared_sports]

matches_query_constraints(profile, query) ==
    IF ~is_within_bounding_box(profile.latitude, profile.longitude, query.bounding_box)
    THEN FALSE
    ELSE IF Contains(query.exclude_user_ids, profile.user_id) THEN FALSE
    ELSE IF profile.age < query.min_age \/ profile.age > query.max_age THEN FALSE
    ELSE IF \/ profile.height_cm < query.min_height_cm
            \/ profile.height_cm > query.max_height_cm THEN FALSE
    ELSE IF /\ Len(query.preferred_genders) # 0
            /\ ~Contains(query.preferred_genders, profile.gender) THEN FALSE
    ELSE TRUE

----------------------------------------------------------------------------
(* core/scoring.rs *)

\* calculate_distance_score: distance in metres, max_distance_km: u16 in km
calculate_distance_score(distance_m, max_distance_km) ==
    IF distance_m >= max_distance_km * 1000 THEN 0
    ELSE ExpNeg((distance_m * 2 * (SCALE \div 1000)) \div max_distance_km)

\* the triangular score shared by calculate_age_score and calculate_height_score.
\* sum is min + max and range is max - min as the integer type computes them;
\* mid = sum / 2.0, and deviation / (range / 2.0) = |2 * value - sum| / range.
TriangularScore(value, sum, range) ==
    IF range <= 0 THEN SCALE
    ELSE SCALE - Min(SCALE, (Abs(2 * value - sum) * SCALE) \div range)

\* calculate_age_score: (min_age + max_age) and (max_age - min_age) are u8
\* operations; this is the value when they wrap
calculate_age_score(age, min_age, max_age) ==
    TriangularScore(age, (min_age + max_age) % U8_MOD, (max_age - min_age) % U8_MOD)

\* calculate_height_score: the same with u16 operations
calculate_height_score(height_cm, min_height_cm, max_height_cm) ==
    TriangularScore(height_cm,
                    (min_height_cm + max_height_cm) % U16_MOD,
                    (max_height_cm - min_height_cm) % U16_MOD)

\* the u8 / u16 additions and subtractions of the two functions above leave the
\* type's range: with overflow checks on, the call panics
ScoreOverflows(prefs) ==
    \/ prefs.min_age + prefs.max_age >= U8_MOD
    \/ prefs.max_age < prefs.min_age
    \/ prefs.min_height_cm + prefs.max_height_cm >= U16_MOD
    \/ prefs.max_height_cm < prefs.min_height_cm

\* faulty variant of Clamp: the upper clamp is missing
ClampLowerOnly(total_score) == Max(total_score, 0)

\* total_score.min(100.0).max(0.0)
Clamp(total_score) == Max(Min(total_score, 100 * SCALE), 0)

\* faulty variant of VerifiedScore: the bonus is never given
VerifiedScoreNever(profile) == 0

\* if profile.verified() { 1.0 } else { 0.0 }
VerifiedScore(profile) == IF verified(profile) THEN SCALE ELSE 0

\* calculate_match_score: (score, shared_sports), with the locals it computes
calculate_match_score(profile, prefs, w) ==
    LET distance_km == haversine_distance(prefs.latitude, prefs.longitude,
                                          profile.latitude, profile.longitude)
        distance_score == calculate_distance_score(distance_km, prefs.max_distance_km)
        age_score == calculate_age_score(profile.age, prefs.min_age, prefs.max_age)
        pref == calculate_preference_score(profile, prefs)
        verified_score == VerifiedScore(profile)
        height_score == calculate_height_score(profile.height_cm,
                                               prefs.min_height_cm, prefs.max_height_cm)
        total_score == distance_score * w.distance
                       + age_score * w.age
                       + pref.normalized * w.sports
                       + verified_score * w.verified
                       + height_score * w.height
    IN  [score |-> Clamp(total_score),
         shared_sports |-> pref.shared_sports,
         distance_score |-> distance_score,
         age_score |-> age_score,
         pref_score |-> pref.normalized,
         verified_score |-> verified_score,
         height_score |-> height_score]

----------------------------------------------------------------------------
(* core/matcher.rs *)

\* faulty variant of BuildQuery: the requester is not put on the exclusion list
BuildQueryNoExclusion(prefs, lim) ==
    [bounding_box |-> calculate_bounding_box(prefs.latitude, prefs.longitude,
                                             prefs.max_distance_km),
     preferred_genders |-> prefs.preferred_genders,
     min_age |-> prefs.min_age,
     max_age |-> prefs.max_age,
     min_height_cm |-> prefs.min_height_cm,
     max_height_cm |-> prefs.max_height_cm,
     exclude_user_ids |-> <<>>,
     limit |-> lim]

\* the CandidateQuery built by find_matches
BuildQuery(prefs, lim) ==
    [bounding_box |-> calculate_bounding_box(prefs.latitude, prefs.longitude,
                                             prefs.max_distance_km),
     preferred_genders |-> prefs.preferred_genders,
     min_age |-> prefs.min_age,
     max_age |-> prefs.max_age,
     min_height_cm |-> prefs.min_height_cm,
     max_height_cm |-> prefs.max_height_cm,
     exclude_user_ids |-> <<prefs.user_id>>,
     limit |-> lim]

\* faulty variant of PassesFilters: the demographic stage is skipped
PassesFiltersQueryOnly(profile, prefs, query) ==
    matches_query_constraints(profile, query)

\* faulty variant of PassesFilters: neither stage looks at the age and height
\* bounds
PassesFiltersNoRanges(profile, prefs, query) ==
    /\ is_within_bounding_box(profile.latitude, profile.longitude, query.bounding_box)
    /\ ~Contains(query.exclude_user_ids, profile.user_id)
    /\ profile.is_active /\ ~timeout(profile)
    /\ Len(prefs.preferred_genders) = 0 \/ Contains(prefs.preferred_genders, profile.gender)

\* the two .filter() stages
PassesFilters(profile, prefs, query) ==
    /\ matches_query_constraints(profile, query)
    /\ matches_demographics(profile, prefs)

\* faulty variant of MeetsMinScore: a score of exactly 5.0 is dropped
MeetsMinScoreStrict(score) == score > MIN_SCORE * SCALE

\* the minimum-score test of the filter_map closure
MeetsMinScore(score) == score >= MIN_SCORE * SCALE

\* faulty variant of MakeScoredMatch: the image list is not carried over
MakeScoredMatchNoImages(profile, prefs, w) ==
    LET s == calculate_match_score(profile, prefs, w)
    IN  [user_id |-> profile.user_id,
         name |-> profile.name,
         age |-> profile.age,
         height_cm |-> profile.height_cm,
         hair_color |-> profile.hair_color,
         gender |-> profile.gender,
         distance_km |-> haversine_distance(prefs.latitude, prefs.longitude,
                                            profile.latitude, profile.longitude),
         match_score |-> s.score,
         shared_sports |-> s.shared_sports,
         is_verified |-> verified(profile),
         image_file_ids |-> <<>>,
         description |-> profile.description]

\* the ScoredMatch the filter_map closure builds (distance_km is in metres)
MakeScoredMatch(profile, prefs, w) ==
    LET s == calculate_match_score(profile, prefs, w)
    IN  [user_id |-> profile.user_id,
         name |-> profile.name,
         age |-> profile.age,
         height_cm |-> profile.height_cm,
         hair_color |-> profile.hair_color,
         gender |-> profile.gender,
         distance_km |-> haversine_distance(prefs.latitude, prefs.longitude,
                                            profile.latitude, profile.longitude),
         match_score |-> s.score,
         shared_sports |-> s.shared_sports,
         is_verified |-> verified(profile),
         image_file_ids |-> profile.image_file_ids,
         description |-> profile.description]

\* filter, filter, filter_map applied to one candidate: an Option<ScoredMatch>,
\* <<>> for None and <<m>> for Some(m)
EvaluateCandidate(profile, prefs, query, w) ==
    IF /\ PassesFilters(profile, prefs, query)
       /\ MeetsMinScore(calculate_match_score(profile, prefs, w).score)
    THEN <<MakeScoredMatch(profile, prefs, w)>>
    ELSE <<>>

\* faulty variant of CollectInInputOrder: the survivors are taken in the order in
\* which their evaluation completed
RECURSIVE CollectInCompletionOrder(_, _)
CollectInCompletionOrder(slots, n) ==
    IF slots = <<>> THEN <<>>
    ELSE Head(slots).out \o CollectInCompletionOrder(Tail(slots), n)

\* collect(): the survivors among the n evaluated candidates, in input order,
\* whatever the order in which the evaluations completed
RECURSIVE CollectInInputOrder(_, _)
CollectInInputOrder(slots, n) ==
    IF n = 0 THEN <<>>
    ELSE LET slot == CHOOSE k \in 1..Len(slots) : slots[k].index = n
         IN  CollectInInputOrder(slots, n - 1) \o slots[slot].out

\* filter, filter, filter_map, collect: the scored survivors in input order
RECURSIVE ScoredSurvivors(_, _, _, _)
ScoredSurvivors(cands, prefs, query, w) ==
    IF cands = <<>> THEN <<>>
    ELSE LET profile == Head(cands)
             rest == ScoredSurvivors(Tail(cands), prefs, query, w)
         IN  IF /\ PassesFilters(profile, prefs, query)
                /\ MeetsMinScore(calculate_match_score(profile, prefs, w).score)
             THEN <<MakeScoredMatch(profile, prefs, w)>> \o rest
             ELSE rest

\* faulty variant of SortsBefore: compares the score only
SortsBeforeByScoreOnly(a, b) == a.match_score > b.match_score

\* the sort_by comparator returns Less: a goes before b
SortsBefore(a, b) ==
    \/ a.match_score > b.match_score
    \/ /\ a.match_score = b.match_score
       /\ a.distance_km < b.distance_km

\* faulty variant of InsertSorted: an element goes in front of the elements it
\* compares equal to
RECURSIVE InsertSortedUnstable(_, _)
InsertSortedUnstable(sorted, x) ==
    IF sorted = <<>> THEN <<x>>
    ELSE IF ~SortsBefore(Head(sorted), x) THEN <<x>> \o sorted
    ELSE <<Head(sorted)>> \o InsertSortedUnstable(Tail(sorted), x)

\* Vec::sort_by is a stable sort: an element goes in front of the first element
\* it sorts strictly before, and behind every element it compares equal to
RECURSIVE InsertSorted(_, _)
InsertSorted(sorted, x) ==
    IF sorted = <<>> THEN <<x>>
    ELSE IF SortsBefore(x, Head(sorted)) THEN <<x>> \o sorted
    ELSE <<Head(sorted)>> \o InsertSorted(Tail(sorted), x)

RECURSIVE SortMatches(_)
SortMatches(ms) ==
    IF ms = <<>> THEN <<>>
    ELSE InsertSorted(SortMatches(SubSeq(ms, 1, Len(ms) - 1)), ms[Len(ms)])

\* faulty variant of Truncate: keeps one entry more than the limit
TruncateOneMore(ms, lim) == SubSeq(ms, 1, Min(lim + 1, Len(ms)))

\* Vec::truncate
Truncate(ms, lim) == SubSeq(ms, 1, Min(lim, Len(ms)))

\* faulty variant of find_matches: the survivors are cut to the limit before they
\* are sorted
find_matches_TruncateFirst(w, prefs, cands, lim) ==
    LET query == BuildQuery(prefs, lim)
        scored_matches == ScoredSurvivors(cands, prefs, query, w)
    IN  [matches |-> SortMatches(Truncate(scored_matches, lim)),
         total_candidates |-> Len(cands)]

\* faulty variant of find_matches: total_candidates is taken after the filters
find_matches_CountSurvivors(w, prefs, cands, lim) ==
    LET query == BuildQuery(prefs, lim)
        scored_matches == ScoredSurvivors(cands, prefs, query, w)
    IN  [matches |-> Truncate(SortMatches(scored_matches), lim),
         total_candidates |-> Len(scored_matches)]

\* Matcher::find_matches
find_matches(w, prefs, cands, lim) ==
    LET total_candidates == Len(cands)
        query == BuildQuery(prefs, lim)
        scored_matches == ScoredSurvivors(cands, prefs, query, w)
    IN  [matches |-> Truncate(SortMatches(scored_matches), lim),
         total_candidates |-> total_candidates]

\* a candidate reaches calculate_match_score with bounds whose sum or difference
\* leaves the integer type
FindMatchesOverflows(prefs, cands, lim) ==
    /\ ScoreOverflows(prefs)
    /\ \E i \in 1..Len(cands) : PassesFilters(cands[i], prefs, BuildQuery(prefs, lim))

----------------------------------------------------------------------------
(* services/cache.rs *)

\* serde_json::to_string(value), as the bytes kept by a tier
Serialize(v) == <<"json", v>>

\* serde_json::from_slice / from_str of bytes that to_string produced
Deserialize(bytes) == bytes[2]

----------------------------------------------------------------------------
(* Inputs *)

\* longest candidate list and largest limit of a find_matches call
MaxCandidates == 2
MaxLimit == 2

\* the requester, as create_preferences() of the tests builds it, on the equator
BasePreferences ==
    [user_id |-> "u0",
     preferred_genders |-> <<"female">>,
     min_age |-> 21, max_age |-> 35,
     min_height_cm |-> 160, max_height_cm |-> 180,
     preferred_hair_colors |-> <<>>,
     preferred_sports |-> <<"tennis", "swimming">>,
     max_distance_km |-> 50,
     latitude |-> 0, longitude |-> 0]

\* a candidate as create_candidate() of the tests builds it: about 1.1 km north
\* of the requester, in the middle of the age and height ranges, verified
BaseProfile ==
    [user_id |-> "u1", name |-> "User u1",
     age |-> 28, height_cm |-> 170,
     hair_color |-> "brown", gender |-> "female",
     latitude |-> 1, longitude |-> 0,
     is_verified |-> "SomeTrue", is_active |-> TRUE, is_timeout |-> "SomeFalse",
     image_file_ids |-> <<>>, description |-> "None",
     sports_preferences |-> <<"tennis">>]

\* weights that sum to 5
HeavyWeights ==
    [distance |-> 100, age |-> 100, sports |-> 100, verified |-> 100, height |-> 100]

\* weights that give a verified candidate exactly the minimum score, and any
\* other candidate nothing
VerifiedOnlyWeights ==
    [distance |-> 0, age |-> 0, sports |-> 0, verified |-> 5, height |-> 0]

\* weights that ignore verification
NoVerifiedWeights ==
    [distance |-> 35, age |-> 20, sports |-> 25, verified |-> 0, height |-> 20]

\* Matcher::new(weights), for direct scoring calls and for find_matches calls
WeightSet == {DefaultWeights, HeavyWeights, VerifiedOnlyWeights, NoVerifiedWeights}
FindWeightSet == {DefaultWeights, HeavyWeights, VerifiedOnlyWeights}

\* preferences of find_matches calls
FindPreferences ==
    {BasePreferences,
     [BasePreferences EXCEPT !.preferred_genders = <<>>],
     [BasePreferences EXCEPT !.preferred_hair_colors = <<"blonde">>,
                             !.preferred_sports = <<>>],
     [BasePreferences EXCEPT !.min_age = 120, !.max_age = 140],
     [BasePreferences EXCEPT !.min_age = 35, !.max_age = 21],
     [BasePreferences EXCEPT !.min_height_cm = 180, !.max_height_cm = 160]}

\* candidates of find_matches calls
FindProfiles ==
    {BaseProfile,
     \* same place and sub-scores as the base, another user
     [BaseProfile EXCEPT !.user_id = "u2", !.name = "User u2",
                         !.image_file_ids = <<"img2">>, !.description = "hello"],
     \* 22 km away, at the edge of both ranges, nothing set, nothing shared
     [BaseProfile EXCEPT !.user_id = "u3", !.name = "User u3", !.latitude = 0,
                         !.longitude = 20, !.age = 35, !.height_cm = 160,
                         !.is_verified = "None", !.is_timeout = "None",
                         !.sports_preferences = <<"golf">>],
     \* the requester's own profile
     [BaseProfile EXCEPT !.user_id = "u0", !.name = "User u0"],
     [BaseProfile EXCEPT !.is_active = FALSE],
     [BaseProfile EXCEPT !.is_timeout = "SomeTrue"],
     [BaseProfile EXCEPT !.gender = "male"],
     \* too old for the base range, in the middle of the range 120..140
     [BaseProfile EXCEPT !.age = 130],
     [BaseProfile EXCEPT !.height_cm = 190],
     \* 0.45 degree north: inside the box (50/111 = 0.4504 degree), 50.04 km away
     [BaseProfile EXCEPT !.user_id = "u3", !.name = "User u3", !.latitude = 45],
     \* the corner of the box, 70.8 km away
     [BaseProfile EXCEPT !.latitude = 45, !.longitude = -45],
     \* 0.46 degree north: outside the box
     [BaseProfile EXCEPT !.latitude = 46]}

\* all sequences over S of length at most n
RECURSIVE SeqsUpTo(_, _)
SeqsUpTo(S, n) ==
    IF n = 0 THEN {<<>>}
    ELSE LET shorter == SeqsUpTo(S, n - 1)
         IN  shorter \cup {Append(s, x) : s \in {t \in shorter : Len(t) = n - 1}, x \in S}

\* inputs of direct calculate_match_score calls
AgeRanges == {<<21, 35>>, <<28, 28>>, <<35, 21>>, <<120, 140>>}
AgeValues == {21, 28, 35, 130}
HeightRanges == {<<160, 180>>, <<170, 170>>, <<180, 160>>, <<33000, 33020>>}
HeightValues == {160, 170, 180, 33010}

ScorePreferences ==
    {[BasePreferences EXCEPT !.min_age = a[1], !.max_age = a[2],
                             !.min_height_cm = h[1], !.max_height_cm = h[2],
                             !.preferred_hair_colors = hc] :
        a \in AgeRanges, h \in HeightRanges, hc \in {<<>>, <<"blonde">>}}

ScoreProfiles ==
    {[BaseProfile EXCEPT !.age = a, !.height_cm = h, !.is_verified = v,
                         !.latitude = lat, !.sports_preferences = sp] :
        a \in AgeValues, h \in HeightValues,
        v \in {"None", "SomeTrue", "SomeFalse"},
        lat \in {10, 45},
        sp \in {<<>>, <<"tennis">>, <<"tennis", "swimming">>}}

\* inputs of direct calculate_preference_score calls: sports lists without a
\* shared label, with fewer than five, exactly five and more than five shared
\* labels, and with a label named twice
SevenSports == <<"tennis", "swimming", "golf", "running", "yoga", "chess", "rowing">>

PrefProfileSports ==
    {<<>>, <<"tennis">>, <<"golf">>, <<"swimming", "tennis">>, <<"tennis", "tennis">>,
     <<"tennis", "golf", "tennis">>, SubSeq(SevenSports, 1, 5), SubSeq(SevenSports, 1, 6),
     SevenSports}

PrefPreferredSports ==
    {<<>>, <<"tennis", "swimming">>, <<"tennis", "tennis">>, SevenSports}

PrefPreferences ==
    {[BasePreferences EXCEPT !.preferred_hair_colors = hc, !.preferred_sports = sp] :
        hc \in {<<>>, <<"blonde">>, <<"blonde", "brown">>}, sp \in PrefPreferredSports}

PrefProfiles ==
    {[BaseProfile EXCEPT !.hair_color = hc, !.sports_preferences = sp] :
        hc \in {"brown", "black"}, sp \in PrefProfileSports}

\* centers of calculate_bounding_box calls: the poles, the equator, 60 degrees
\* north; the date line and its neighbourhood
GeoLatitudes == {-9000, 0, 50, 6000, 6050, 9000}
GeoLongitudes == {-18000, 0, 50, 17990}
GeoRadii == {0, 1, 50, 500}

GeoPoints == GeoLatitudes \X GeoLongitudes

\* pairs of points of haversine_distance calls: at most a degree apart on each
\* axis
HaversinePairs ==
    {ab \in GeoPoints \X GeoPoints :
        /\ Abs(ab[1][1] - ab[2][1]) <= 100
        /\ Abs(ab[1][2] - ab[2][2]) <= 100}

NoGeoArgs == [a |-> <<0, 0>>, b |-> <<0, 0>>, radius_km |-> 0]

NoGeoOut ==
    [box |-> [min_lat |-> 0, max_lat |-> 0, min_lon |-> 0, max_lon |-> 0],
     within |-> FALSE, forward |-> 0, backward |-> 0]

NoResult == [matches |-> <<>>, total_candidates |-> 0]

NoScore ==
    [score |-> 0, shared_sports |-> <<>>, distance_score |-> 0, age_score |-> 0,
     pref_score |-> 0, verified_score |-> 0, height_score |-> 0]

\* number of concurrent callers of find_matches on one Matcher
NumCallers == 2

Callers == 1..NumCallers

\* the twin of the base profile, and a profile 22 km away at the edge of both
\* ranges
ProfileU2 ==
    [BaseProfile EXCEPT !.user_id = "u2", !.name = "User u2",
                        !.image_file_ids = <<"img2">>, !.description = "hello"]

ProfileU3 ==
    [BaseProfile EXCEPT !.user_id = "u3", !.name = "User u3", !.latitude = 0,
                        !.longitude = 20, !.age = 35, !.height_cm = 160,
                        !.is_verified = "None", !.is_timeout = "None",
                        !.sports_preferences = <<"golf">>]

\* arguments of the concurrent calls: a tie; a list the sort reorders and the
\* limit cuts; no candidate; a candidate the filters drop followed by a tie
CallArgs ==
    {[preferences |-> BasePreferences,
      candidates |-> <<BaseProfile, ProfileU2>>, limit |-> 2],
     [preferences |-> [BasePreferences EXCEPT !.preferred_hair_colors = <<"blonde">>],
      candidates |-> <<ProfileU3, BaseProfile>>, limit |-> 1],
     [preferences |-> BasePreferences, candidates |-> <<>>, limit |-> 0],
     [preferences |-> BasePreferences,
      candidates |-> <<[BaseProfile EXCEPT !.gender = "male"], BaseProfile, ProfileU2>>,
      limit |-> 2]}

NoCall == [preferences |-> BasePreferences, candidates |-> <<>>, limit |-> 0]

\* the users with a document in the user_profiles collection; the first one
\* sends the requests
Users == {"u0", "u1", "u2"}
Requesters == {"u0"}

\* the document of user u: the requester of the base preferences sits at the
\* origin, the others are the base profile and its twin
ProfileOf(u) ==
    CASE u = "u0" -> [BaseProfile EXCEPT !.user_id = "u0", !.name = "User u0",
                                         !.latitude = 0]
      [] u = "u1" -> BaseProfile
      [] u = "u2" -> ProfileU2

\* the documents in the order in which the collection lists them
Directory == <<ProfileOf("u0"), ProfileOf("u1"), ProfileOf("u2")>>

\* the stored preferences of user u (the stored coordinates are replaced by the
\* handler)
PreferencesOf(u) ==
    [BasePreferences EXCEPT !.user_id = u, !.latitude = 4500, !.longitude = 4500]

\* CacheKey::matches(user_id): "matches:{user_id}"
CacheKeyMatches(u) == <<"matches", u>>

CacheKeys == {CacheKeyMatches(u) : u \in Requesters}

\* a tier holds no entry under a key; a serialized match result
Absent == <<>>
CachedResult == Serialize("cached")

\* number of calls of the CacheManager, each by a client of its own
NumCacheClients == 3

CacheClients == 1..NumCacheClients

\* the value an earlier set stored, and the value the set calls store
OlderResult == "older"
NewerResult == "newer"

\* a client that has not called the CacheManager
NoCacheOp == [op |-> "none", key |-> <<>>, pc |-> "idle", value |-> "", read |-> Absent]

\* no request has completed
NoRequest ==
    [kind |-> "none", user_id |-> "", target |-> "", outcome |-> "",
     failed |-> {}, done |-> {}, core_invoked |-> FALSE, core_candidates |-> <<>>,
     matches |-> <<>>, seen |-> {}]

\* limits a find-matches request asks for
RequestLimits == {1, 20}

\* no direct call of the core is in flight
CoreIdle ==
    /\ pc = "idle"
    /\ preferences = BasePreferences
    /\ candidates = <<>>
    /\ limit = 0
    /\ result = NoResult
    /\ score_out = NoScore

\* no call of the distance module is in flight
GeoIdle ==
    /\ geo_pc = "idle"
    /\ geo_args = NoGeoArgs
    /\ geo_out = NoGeoOut

\* no concurrent caller exists
CallsIdle ==
    /\ calls = [c \in Callers |-> NoCall]
    /\ call_pc = [c \in Callers |-> "idle"]
    /\ evaluated = [c \in Callers |-> <<>>]
    /\ call_result = [c \in Callers |-> NoResult]

\* the stores as the service finds them at start, no request completed
ServicesIdle ==
    /\ seen_profiles = {}
    /\ l1_cache = [k \in CacheKeys |-> Absent]
    /\ redis = [k \in CacheKeys |-> Absent]
    /\ last = NoRequest
    /\ cache_ops = [c \in CacheClients |-> NoCacheOp]
    /\ cache_log = <<>>

----------------------------------------------------------------------------
(* The calls *)

\* a caller holds a Matcher and is about to call find_matches
InitFind ==
    /\ weights \in FindWeightSet
    /\ pc = "find_called"
    /\ preferences \in FindPreferences
    /\ candidates \in SeqsUpTo(FindProfiles, MaxCandidates)
    /\ limit \in 0..MaxLimit
    /\ result = NoResult
    /\ score_out = NoScore
    /\ GeoIdle
    /\ CallsIdle
    /\ ServicesIdle

\* a caller is about to call calculate_match_score on one profile
InitScore ==
    /\ weights \in WeightSet
    /\ pc = "score_called"
    /\ preferences \in ScorePreferences
    /\ candidates \in {<<p>> : p \in ScoreProfiles}
    /\ limit = 0
    /\ result = NoResult
    /\ score_out = NoScore
    /\ GeoIdle
    /\ CallsIdle
    /\ ServicesIdle

Init == InitFind \/ InitScore

\* find_matches returns: always without overflow checks, and with them when no
\* scored candidate meets bounds that overflow
FindMatchesReturn ==
    /\ pc = "find_called"
    /\ result' = find_matches(weights, preferences, candidates, limit)
    /\ pc' = "find_done"
    /\ UNCHANGED <<weights, preferences, candidates, limit, score_out, geoVars, callVars, serviceVars>>

\* find_matches panics in calculate_age_score / calculate_height_score
\* (attempt to add / subtract with overflow)
FindMatchesPanic ==
    /\ pc = "find_called"
    /\ FindMatchesOverflows(preferences, candidates, limit)
    /\ pc' = "find_panicked"
    /\ UNCHANGED <<weights, preferences, candidates, limit, result, score_out, geoVars, callVars, serviceVars>>

\* calculate_match_score returns
CalculateMatchScoreReturn ==
    /\ pc = "score_called"
    /\ score_out' = calculate_match_score(candidates[1], preferences, weights)
    /\ pc' = "score_done"
    /\ UNCHANGED <<weights, preferences, candidates, limit, result, geoVars, callVars, serviceVars>>

\* calculate_match_score panics on overflow
CalculateMatchScorePanic ==
    /\ pc = "score_called"
    /\ ScoreOverflows(preferences)
    /\ pc' = "score_panicked"
    /\ UNCHANGED <<weights, preferences, candidates, limit, result, score_out, geoVars, callVars, serviceVars>>

Next ==
    \/ FindMatchesReturn
    \/ FindMatchesPanic
    \/ CalculateMatchScoreReturn
    \/ CalculateMatchScorePanic

Spec == Init /\ [][Next]_vars

----------------------------------------------------------------------------
(* Direct calls of core/distance.rs *)

\* a caller is about to call calculate_bounding_box and to test the center
\* against the box
InitBoundingBox ==
    /\ weights = DefaultWeights
    /\ CoreIdle
    /\ CallsIdle
    /\ ServicesIdle
    /\ geo_pc = "bbox_called"
    /\ geo_args \in {[a |-> c, b |-> c, radius_km |-> r] : c \in GeoPoints, r \in GeoRadii}
    /\ geo_out = NoGeoOut

\* a caller is about to call haversine_distance on two points, in both orders
InitHaversine ==
    /\ weights = DefaultWeights
    /\ CoreIdle
    /\ CallsIdle
    /\ ServicesIdle
    /\ geo_pc = "haversine_called"
    /\ geo_args \in {[a |-> ab[1], b |-> ab[2], radius_km |-> 0] : ab \in HaversinePairs}
    /\ geo_out = NoGeoOut

InitGeo == InitBoundingBox \/ InitHaversine

\* calculate_bounding_box returns, then is_within_bounding_box of the center
CalculateBoundingBoxReturn ==
    /\ geo_pc = "bbox_called"
    /\ LET box == calculate_bounding_box(geo_args.a[1], geo_args.a[2], geo_args.radius_km)
       IN  geo_out' = [geo_out EXCEPT
                          !.box = box,
                          !.within = is_within_bounding_box(geo_args.a[1], geo_args.a[2], box)]
    /\ geo_pc' = "bbox_done"
    /\ UNCHANGED <<coreVars, geo_args, callVars, serviceVars>>

\* haversine_distance(a, b) and haversine_distance(b, a) return
HaversineDistanceReturn ==
    /\ geo_pc = "haversine_called"
    /\ geo_out' = [geo_out EXCEPT
                      !.forward = haversine_distance(geo_args.a[1], geo_args.a[2],
                                                     geo_args.b[1], geo_args.b[2]),
                      !.backward = haversine_distance(geo_args.b[1], geo_args.b[2],
                                                      geo_args.a[1], geo_args.a[2])]
    /\ geo_pc' = "haversine_done"
    /\ UNCHANGED <<coreVars, geo_args, callVars, serviceVars>>

NextGeo ==
    \/ CalculateBoundingBoxReturn
    \/ HaversineDistanceReturn

SpecGeo == InitGeo /\ [][NextGeo]_vars

----------------------------------------------------------------------------
(* Direct calls of calculate_preference_score *)

\* a caller is about to call calculate_preference_score on one profile
InitPreference ==
    /\ weights = DefaultWeights
    /\ pc = "pref_called"
    /\ preferences \in PrefPreferences
    /\ candidates \in {<<p>> : p \in PrefProfiles}
    /\ limit = 0
    /\ result = NoResult
    /\ score_out = NoScore
    /\ GeoIdle
    /\ CallsIdle
    /\ ServicesIdle

\* calculate_preference_score returns (normalized, shared_sports)
CalculatePreferenceScoreReturn ==
    /\ pc = "pref_called"
    /\ LET r == calculate_preference_score(candidates[1], preferences)
       IN  score_out' = [NoScore EXCEPT !.pref_score = r.normalized,
                                        !.shared_sports = r.shared_sports]
    /\ pc' = "pref_done"
    /\ UNCHANGED <<weights, preferences, candidates, limit, result, geoVars, callVars, serviceVars>>

NextPreference == CalculatePreferenceScoreReturn

SpecPreference == InitPreference /\ [][NextPreference]_vars

----------------------------------------------------------------------------
(* Concurrent find_matches calls on one Matcher, the per-candidate step of each
   call taken in any order *)

\* faulty variant of ScratchOf: all calls collect into the vector of the first
ScratchShared(c) == 1

\* let mut scored_matches: Vec<ScoredMatch>: a local of the call
ScratchOf(c) == c

\* the callers hold a reference to one Matcher, each about to call find_matches
InitCalls ==
    /\ weights = DefaultWeights
    /\ CoreIdle
    /\ GeoIdle
    /\ ServicesIdle
    /\ calls \in [Callers -> CallArgs]
    /\ call_pc = [c \in Callers |-> "called"]
    /\ evaluated = [c \in Callers |-> <<>>]
    /\ call_result = [c \in Callers |-> NoResult]

\* caller c's call evaluates candidate i: the two filters and the filter_map
\* closure, reading self.weights
EvaluateStep(c, i) ==
    /\ call_pc[c] = "called"
    /\ \A k \in 1..Len(evaluated[ScratchOf(c)]) : evaluated[ScratchOf(c)][k].index # i
    /\ LET a == calls[c]
           out == EvaluateCandidate(a.candidates[i], a.preferences,
                                    BuildQuery(a.preferences, a.limit), weights)
       IN  evaluated' = [evaluated EXCEPT
                            ![ScratchOf(c)] = Append(@, [index |-> i, out |-> out])]
    /\ UNCHANGED <<coreVars, geoVars, serviceVars, calls, call_pc, call_result>>

\* every candidate of caller c's call is evaluated: collect, sort_by, truncate,
\* return
CollectSortTruncate(c) ==
    /\ call_pc[c] = "called"
    /\ LET a == calls[c]
           slots == evaluated[ScratchOf(c)]
       IN  /\ {slots[k].index : k \in 1..Len(slots)} = 1..Len(a.candidates)
           /\ call_result' =
                  [call_result EXCEPT
                      ![c] = [matches |->
                                  Truncate(SortMatches(
                                      CollectInInputOrder(slots, Len(a.candidates))),
                                      a.limit),
                              total_candidates |-> Len(a.candidates)]]
    /\ call_pc' = [call_pc EXCEPT ![c] = "done"]
    /\ UNCHANGED <<coreVars, geoVars, serviceVars, calls, evaluated>>

NextCalls ==
    \E c \in Callers :
        \/ \E i \in 1..Len(calls[c].candidates) : EvaluateStep(c, i)
        \/ CollectSortTruncate(c)

SpecCalls == InitCalls /\ [][NextCalls]_vars

----------------------------------------------------------------------------
(* routes/matches.rs and the services behind it.  A request handler is one
   action; the outcome of each call to PostgreSQL, Appwrite and Redis is an
   input of the action. *)

\* the user_ids of a list of profiles or matches
UserIds(ps) == [i \in 1..Len(ps) |-> ps[i].user_id]

\* PostgresClient::get_seen_profiles, when the query succeeds (the ids as a set:
\* the handler only tests membership)
get_seen_profiles(user_id) == {t \in Users : <<user_id, t>> \in seen_profiles}

\* PostgresClient::record_seen, when the statement succeeds: an upsert on the
\* key (user_id, target_user_id)
record_seen(user_id, target_user_id) == seen_profiles \cup {<<user_id, target_user_id>>}

\* AppwriteClient::query_candidates, when the request succeeds.  The documents of
\* the collection all satisfy the query sent to the server; the client then
\* drops the requester and the excluded ids.
query_candidates(user_id, exclude_ids) ==
    SelectSeq(Directory, LAMBDA p : p.user_id # user_id /\ p.user_id \notin exclude_ids)

\* the service has started: Matcher::new(weights) with the configured weights,
\* empty stores
InitHandler ==
    /\ weights = DefaultWeights
    /\ CoreIdle
    /\ GeoIdle
    /\ CallsIdle
    /\ ServicesIdle

\* POST /matches/find.  seen_ok, profile_ok, prefs_ok, cands_ok: whether the
\* fetch of the seen list, of the requester's profile, of the preferences and of
\* the candidates succeeds (a later fetch is not made once the handler returned)
FindMatchesHandler(user_id, req_limit, exclude, seen_ok, profile_ok, prefs_ok, cands_ok) ==
    LET lim == Min(req_limit, 100)
        seen_failed == IF seen_ok THEN {} ELSE {"seen_profiles"}
        seen_profile_ids ==
            (IF seen_ok THEN get_seen_profiles(user_id) ELSE {}) \cup exclude
        response(outcome, failed) ==
            [NoRequest EXCEPT !.kind = "find_matches", !.user_id = user_id,
                              !.outcome = outcome, !.failed = failed]
    IN  /\ last' =
               IF user_id = "" THEN response("bad_request", {})
               ELSE IF ~profile_ok
                    THEN response("internal_error", seen_failed \cup {"profile"})
               ELSE IF ~prefs_ok
                    THEN response("internal_error", seen_failed \cup {"preferences"})
               ELSE IF ~cands_ok
                    THEN response("internal_error", seen_failed \cup {"candidates"})
               ELSE LET prefs == [PreferencesOf(user_id) EXCEPT
                                     !.latitude = ProfileOf(user_id).latitude,
                                     !.longitude = ProfileOf(user_id).longitude]
                        cands == query_candidates(user_id, seen_profile_ids)
                        res == find_matches(weights, prefs, cands, lim)
                    IN  [response("ok", seen_failed) EXCEPT
                            !.core_invoked = TRUE,
                            !.core_candidates = UserIds(cands),
                            !.matches = UserIds(res.matches)]
        /\ UNCHANGED <<coreVars, geoVars, callVars, clientVars, seen_profiles, l1_cache, redis>>

\* faulty variant of RecordEventStatus: every store must have taken the event
RecordEventStatusAllRequired(pg_ok, appwrite_ok, redis_ok) ==
    IF pg_ok /\ appwrite_ok /\ redis_ok THEN "ok" ELSE "internal_error"

\* the response of record_event once the request is validated: match
\* postgres_result { Ok(_) => 200, Err(e) => 500 }
RecordEventStatus(pg_ok, appwrite_ok, redis_ok) ==
    IF pg_ok THEN "ok" ELSE "internal_error"

\* POST /matches/event.  pg_ok, appwrite_ok, redis_ok: whether record_seen, the
\* Appwrite write and the Redis DEL of CacheManager::delete succeed.  `done` and
\* `failed` of the response name the calls made, by their result.
RecordEventHandler(user_id, target_user_id, event_type, pg_ok, appwrite_ok, redis_ok) ==
    LET calls_made == IF pg_ok THEN {"postgres", "appwrite", "redis"}
                      ELSE {"postgres", "appwrite"}
        calls_failed == {s \in calls_made : \/ s = "postgres" /\ ~pg_ok
                                            \/ s = "appwrite" /\ ~appwrite_ok
                                            \/ s = "redis" /\ ~redis_ok}
        response(outcome) ==
            [NoRequest EXCEPT !.kind = "record_event", !.user_id = user_id,
                              !.target = target_user_id, !.outcome = outcome]
        completed ==
            [response(RecordEventStatus(pg_ok, appwrite_ok, redis_ok)) EXCEPT
                !.failed = calls_failed, !.done = calls_made \ calls_failed]
        cache_key == CacheKeyMatches(user_id)
    IN  IF user_id = "" \/ target_user_id = ""
           \/ event_type \notin {"viewed", "liked", "passed", "matched"}
        THEN /\ last' = response("bad_request")
             /\ UNCHANGED <<coreVars, geoVars, callVars, clientVars, seen_profiles, l1_cache, redis>>
        ELSE IF pg_ok
        THEN /\ seen_profiles' = record_seen(user_id, target_user_id)
             /\ l1_cache' = [l1_cache EXCEPT ![cache_key] = Absent]
             /\ redis' = IF redis_ok THEN [redis EXCEPT ![cache_key] = Absent] ELSE redis
             /\ last' = completed
             /\ UNCHANGED <<coreVars, geoVars, callVars, clientVars>>
        ELSE /\ last' = completed
             /\ UNCHANGED <<coreVars, geoVars, callVars, clientVars, seen_profiles, l1_cache, redis>>

\* GET /matches/seen
GetSeenProfilesHandler(user_id, seen_ok) ==
    /\ last' = IF seen_ok
               THEN [NoRequest EXCEPT !.kind = "get_seen_profiles", !.user_id = user_id,
                                      !.outcome = "ok",
                                      !.seen = get_seen_profiles(user_id)]
               ELSE [NoRequest EXCEPT !.kind = "get_seen_profiles", !.user_id = user_id,
                                      !.outcome = "internal_error",
                                      !.failed = {"seen_profiles"}]
    /\ UNCHANGED <<coreVars, geoVars, callVars, clientVars, seen_profiles, l1_cache, redis>>

\* CacheManager::set: the in-memory insert, then SETEX, which may fail
CacheSet(key, redis_ok) ==
    /\ l1_cache' = [l1_cache EXCEPT ![key] = CachedResult]
    /\ redis' = IF redis_ok THEN [redis EXCEPT ![key] = CachedResult] ELSE redis
    /\ last' = [NoRequest EXCEPT !.kind = "cache_set", !.user_id = key[2],
                                 !.outcome = IF redis_ok THEN "ok" ELSE "error"]
    /\ UNCHANGED <<coreVars, geoVars, callVars, clientVars, seen_profiles>>

\* CacheManager::get: the in-memory tier first, then GET, which may fail; a hit
\* in Redis is copied into the in-memory tier
CacheGet(key, redis_ok) ==
    /\ l1_cache' = IF l1_cache[key] = Absent /\ redis_ok
                   THEN [l1_cache EXCEPT ![key] = redis[key]]
                   ELSE l1_cache
    /\ last' = [NoRequest EXCEPT
                    !.kind = "cache_get", !.user_id = key[2],
                    !.outcome = IF l1_cache[key] # Absent THEN "hit"
                                ELSE IF ~redis_ok THEN "error"
                                ELSE IF redis[key] # Absent THEN "hit"
                                ELSE "miss"]
    /\ UNCHANGED <<coreVars, geoVars, callVars, clientVars, seen_profiles, redis>>

NextHandler ==
    \/ \E u \in Requesters \cup {""}, lim \in RequestLimits, ex \in {{}, {"u2"}},
          seen_ok, profile_ok, prefs_ok, cands_ok \in BOOLEAN :
           FindMatchesHandler(u, lim, ex, seen_ok, profile_ok, prefs_ok, cands_ok)
    \/ \E u \in Requesters \cup {""} :
           \E t \in Users \ {u}, e \in {"liked", "blocked"},
              pg_ok, appwrite_ok, redis_ok \in BOOLEAN :
               RecordEventHandler(u, t, e, pg_ok, appwrite_ok, redis_ok)
    \/ \E u \in Requesters, seen_ok \in BOOLEAN : GetSeenProfilesHandler(u, seen_ok)
    \/ \E k \in CacheKeys, redis_ok \in BOOLEAN : CacheSet(k, redis_ok)
    \/ \E k \in CacheKeys, redis_ok \in BOOLEAN : CacheGet(k, redis_ok)

SpecHandler == InitHandler /\ [][NextHandler]_vars

----------------------------------------------------------------------------
(* CacheManager calls of concurrent clients.  A call is a sequence of steps, one
   per access to a tier; between two steps of a call the steps of other calls
   may run.  Each Redis command succeeds or fails. *)

\* an entry of the log: client c's call of op starts or returns
LogEntry(c, op, ev, outcome, value) ==
    [client |-> c, op |-> op, ev |-> ev, outcome |-> outcome, value |-> value]

\* faulty variant of SetFirstTier: set leaves the in-memory tier alone
SetFirstTierSkipped(l1, key, v) == l1

\* set: self.l1_cache.insert(key, bytes)
SetFirstTier(l1, key, v) == [l1 EXCEPT ![key] = Serialize(v)]

\* the service runs: the tiers are empty, or both hold an older result (a set
\* succeeded), or Redis alone holds it (another instance set it)
InitCache ==
    /\ weights = DefaultWeights
    /\ CoreIdle
    /\ GeoIdle
    /\ CallsIdle
    /\ seen_profiles = {}
    /\ last = NoRequest
    /\ \E held \in {<<Absent, Absent>>, <<Serialize(OlderResult), Serialize(OlderResult)>>,
                    <<Absent, Serialize(OlderResult)>>} :
           /\ l1_cache = [k \in CacheKeys |-> held[1]]
           /\ redis = [k \in CacheKeys |-> held[2]]
    /\ cache_ops = [c \in CacheClients |-> NoCacheOp]
    /\ cache_log = <<>>

\* the calls are numbered in the order in which they start: client c makes the
\* next call
NextToStart(c) ==
    /\ cache_ops[c].pc = "idle"
    /\ \A c2 \in CacheClients : c2 < c => cache_ops[c2].pc # "idle"

\* get, first step: the in-memory tier.  A hit returns at once.
GetFirstTier(c, key) ==
    /\ NextToStart(c)
    /\ IF l1_cache[key] # Absent
       THEN /\ cache_ops' = [cache_ops EXCEPT ![c] =
                                 [NoCacheOp EXCEPT !.op = "get", !.key = key, !.pc = "done"]]
            /\ cache_log' = cache_log
                               \o <<LogEntry(c, "get", "start", "", ""),
                                     LogEntry(c, "get", "return", "hit",
                                              Deserialize(l1_cache[key]))>>
       ELSE /\ cache_ops' = [cache_ops EXCEPT ![c] =
                                 [NoCacheOp EXCEPT !.op = "get", !.key = key,
                                                   !.pc = "get_redis"]]
            /\ cache_log' = Append(cache_log, LogEntry(c, "get", "start", "", ""))
    /\ UNCHANGED <<coreVars, geoVars, callVars, seen_profiles, l1_cache, redis, last>>

\* get, second step: GET under the connection lock.  An error and a missing
\* entry return; a value is kept for the next step.
GetRedis(c, redis_ok) ==
    /\ cache_ops[c].pc = "get_redis"
    /\ LET key == cache_ops[c].key
       IN  IF redis_ok /\ redis[key] # Absent
           THEN /\ cache_ops' = [cache_ops EXCEPT ![c].pc = "get_populate",
                                                  ![c].read = redis[key]]
                /\ cache_log' = cache_log
           ELSE /\ cache_ops' = [cache_ops EXCEPT ![c].pc = "done"]
                /\ cache_log' = Append(cache_log,
                                       LogEntry(c, "get", "return",
                                                IF redis_ok THEN "miss" ELSE "error", ""))
    /\ UNCHANGED <<coreVars, geoVars, callVars, seen_profiles, l1_cache, redis, last>>

\* get, third step: the value read from Redis is put into the in-memory tier
\* and returned
GetPopulate(c) ==
    /\ cache_ops[c].pc = "get_populate"
    /\ l1_cache' = [l1_cache EXCEPT ![cache_ops[c].key] = cache_ops[c].read]
    /\ cache_ops' = [cache_ops EXCEPT ![c].pc = "done"]
    /\ cache_log' = Append(cache_log, LogEntry(c, "get", "return", "hit",
                                               Deserialize(cache_ops[c].read)))
    /\ UNCHANGED <<coreVars, geoVars, callVars, seen_profiles, redis, last>>

\* set, first step: the in-memory insert
SetStart(c, key, v) ==
    /\ NextToStart(c)
    /\ l1_cache' = SetFirstTier(l1_cache, key, v)
    /\ cache_ops' = [cache_ops EXCEPT ![c] =
                         [NoCacheOp EXCEPT !.op = "set", !.key = key, !.value = v,
                                           !.pc = "set_redis"]]
    /\ cache_log' = Append(cache_log, LogEntry(c, "set", "start", "", v))
    /\ UNCHANGED <<coreVars, geoVars, callVars, seen_profiles, redis, last>>

\* set, second step: SETEX under the connection lock; set returns its result
SetRedis(c, redis_ok) ==
    /\ cache_ops[c].pc = "set_redis"
    /\ redis' = IF redis_ok
                THEN [redis EXCEPT ![cache_ops[c].key] = Serialize(cache_ops[c].value)]
                ELSE redis
    /\ cache_ops' = [cache_ops EXCEPT ![c].pc = "done"]
    /\ cache_log' = Append(cache_log,
                           LogEntry(c, "set", "return", IF redis_ok THEN "ok" ELSE "error",
                                    cache_ops[c].value))
    /\ UNCHANGED <<coreVars, geoVars, callVars, seen_profiles, l1_cache, last>>

\* delete, first step: self.l1_cache.invalidate(key)
DeleteStart(c, key) ==
    /\ NextToStart(c)
    /\ l1_cache' = [l1_cache EXCEPT ![key] = Absent]
    /\ cache_ops' = [cache_ops EXCEPT ![c] =
                         [NoCacheOp EXCEPT !.op = "delete", !.key = key, !.pc = "del_redis"]]
    /\ cache_log' = Append(cache_log, LogEntry(c, "delete", "start", "", ""))
    /\ UNCHANGED <<coreVars, geoVars, callVars, seen_profiles, redis, last>>

\* delete, second step: DEL under the connection lock; delete returns its result
DeleteRedis(c, redis_ok) ==
    /\ cache_ops[c].pc = "del_redis"
    /\ redis' = IF redis_ok THEN [redis EXCEPT ![cache_ops[c].key] = Absent] ELSE redis
    /\ cache_ops' = [cache_ops EXCEPT ![c].pc = "done"]
    /\ cache_log' = Append(cache_log,
                           LogEntry(c, "delete", "return",
                                    IF redis_ok THEN "ok" ELSE "error", ""))
    /\ UNCHANGED <<coreVars, geoVars, callVars, seen_profiles, l1_cache, last>>

NextCache ==
    \E c \in CacheClients :
        \/ \E k \in CacheKeys : GetFirstTier(c, k)
        \/ \E redis_ok \in BOOLEAN : GetRedis(c, redis_ok)
        \/ GetPopulate(c)
        \/ \E k \in CacheKeys : SetStart(c, k, NewerResult)
        \/ \E redis_ok \in BOOLEAN : SetRedis(c, redis_ok)
        \/ \E k \in CacheKeys : DeleteStart(c, k)
        \/ \E redis_ok \in BOOLEAN : DeleteRedis(c, redis_ok)

SpecCache == InitCache /\ [][NextCache]_vars

----------------------------------------------------------------------------
(* Properties *)

Done == pc = "find_done"
Scored == pc = "score_done"

Matches == result.matches
Indices == 1..Len(candidates)
Entries == 1..Len(result.matches)

\* the ScoredMatch of candidate i and its score
EntryOf(i) == MakeScoredMatch(candidates[i], preferences, weights)
ScoreOf(i) == calculate_match_score(candidates[i], preferences, weights).score
DistanceTo(i) ==
    haversine_distance(preferences.latitude, preferences.longitude,
                       candidates[i].latitude, candidates[i].longitude)

\* candidate i passes both filter stages
Passes(i) == PassesFilters(candidates[i], preferences, BuildQuery(preferences, limit))

\* C1: the returned list has at most `limit` entries, for every input, limit = 0
\* included.
C1_AtMostLimit == Done => Len(Matches) <= limit

\* C1 witness: more candidates were scored and kept than the limit allows, and
\* the call returned exactly `limit` of them.
C1_Witness ==
    /\ Done
    /\ Cardinality({i \in Indices : Passes(i) /\ MeetsMinScore(ScoreOf(i))}) > limit
    /\ Len(Matches) = limit

\* C2: the returned list is sorted by non-increasing match_score, and adjacent
\* entries of equal score are in non-decreasing distance.
C2_Sorted ==
    Done => \A j \in Entries :
                j < Len(Matches) =>
                    /\ Matches[j].match_score >= Matches[j + 1].match_score
                    /\ Matches[j].match_score = Matches[j + 1].match_score
                         => Matches[j].distance_km <= Matches[j + 1].distance_km

\* C2 witness: two entries of equal score were returned nearest first although the
\* input had the farther one first.
C2_Witness ==
    /\ Done
    /\ Len(candidates) = 2 /\ Len(Matches) = 2
    /\ Matches[1].match_score = Matches[2].match_score
    /\ Matches[1].distance_km < Matches[2].distance_km
    /\ Matches[1] = EntryOf(2) /\ Matches[2] = EntryOf(1)

\* C3: a candidate whose exact distance exceeds max_distance_km is not in the
\* result.
C3_BeyondMaxDistanceExcluded ==
    Done => \A i \in Indices :
                DistanceTo(i) > preferences.max_distance_km * 1000
                    => \A j \in Entries : Matches[j] # EntryOf(i)

\* candidate i satisfies the demographic conditions of the preferences
Eligible(i) ==
    LET c == candidates[i]
    IN  /\ c.is_active
        /\ c.is_timeout # "SomeTrue"
        /\ preferences.min_age <= c.age /\ c.age <= preferences.max_age
        /\ preferences.min_height_cm <= c.height_cm
        /\ c.height_cm <= preferences.max_height_cm
        /\ \/ preferences.preferred_genders = <<>>
           \/ \E g \in 1..Len(preferences.preferred_genders) :
                  preferences.preferred_genders[g] = c.gender

\* C4: every returned entry is the entry of a candidate that is active, not timed
\* out, of an age and height within the bounds and of an accepted gender (any
\* gender when none is named).
C4_OnlyEligible ==
    Done => \A j \in Entries : \E i \in Indices : Matches[j] = EntryOf(i) /\ Eligible(i)

\* C4 witness: of two candidates, one too old or of the wrong gender, exactly the
\* other one was returned.
C4_Witness ==
    /\ Done
    /\ Len(candidates) = 2 /\ Len(Matches) = 1
    /\ Eligible(1) /\ Matches[1] = EntryOf(1)
    /\ candidates[2].is_active /\ candidates[2].is_timeout # "SomeTrue"
    /\ \/ candidates[2].age > preferences.max_age
       \/ /\ preferences.preferred_genders # <<>>
          /\ candidates[2].gender # preferences.preferred_genders[1]

\* candidate i is inside the bounding box (inclusive), is not the requester, is
\* eligible and scores at least 5.0
Kept(i) ==
    LET c == candidates[i]
        box == calculate_bounding_box(preferences.latitude, preferences.longitude,
                                      preferences.max_distance_km)
    IN  /\ box.min_lat <= c.latitude * KM_PER_DEGREE
        /\ c.latitude * KM_PER_DEGREE <= box.max_lat
        /\ box.min_lon <= c.longitude * KM_PER_DEGREE
        /\ c.longitude * KM_PER_DEGREE <= box.max_lon
        /\ c.user_id # preferences.user_id
        /\ Eligible(i)
        /\ ScoreOf(i) >= MIN_SCORE * SCALE

\* C5: when the limit does not cut, the result holds exactly the entries of the
\* kept candidates, each as often as it is kept.
C5_ExactlyTheKept ==
    (Done /\ limit >= Cardinality({i \in Indices : Kept(i)}))
        => /\ \A j \in Entries : \E i \in Indices : Kept(i) /\ Matches[j] = EntryOf(i)
           /\ \A i \in Indices :
                  Kept(i) =>
                      Cardinality({j \in Entries : Matches[j] = EntryOf(i)})
                          = Cardinality({k \in Indices : Kept(k) /\ EntryOf(k) = EntryOf(i)})

\* C5 witness: a candidate scoring exactly 5.0 was returned, and one that passed
\* the filters with a score below 5.0 was not.
C5_Witness ==
    /\ Done
    /\ Len(candidates) = 2 /\ limit = 2 /\ Len(Matches) = 1
    /\ Matches[1].match_score = MIN_SCORE * SCALE
    /\ \E i \in Indices : Passes(i) /\ ScoreOf(i) < MIN_SCORE * SCALE

\* C6: a score returned by calculate_match_score, and every match_score of a
\* find_matches result, lies in [0, 100].
C6_ScoreRange ==
    /\ Scored => 0 <= score_out.score /\ score_out.score <= 100 * SCALE
    /\ Done => \A j \in Entries :
                   0 <= Matches[j].match_score /\ Matches[j].match_score <= 100 * SCALE

\* C6 witness: with weights that sum to more than 1 the weighted sum exceeded 100
\* and the score came back as 100.
C6_Witness ==
    /\ Scored
    /\ score_out.distance_score * weights.distance + score_out.age_score * weights.age
         + score_out.pref_score * weights.sports
         + score_out.verified_score * weights.verified
         + score_out.height_score * weights.height > 100 * SCALE
    /\ score_out.score = 100 * SCALE

\* C7: no returned entry carries the requester's own user_id.
C7_SelfExcluded == Done => \A j \in Entries : Matches[j].user_id # preferences.user_id

\* C7 witness: the requester's own profile was among the candidates, inside the
\* box, eligible and scoring above the minimum, and the result is empty.
C7_Witness ==
    /\ Done
    /\ Len(candidates) = 1 /\ limit > 0
    /\ candidates[1].user_id = preferences.user_id
    /\ matches_demographics(candidates[1], preferences)
    /\ is_within_bounding_box(candidates[1].latitude, candidates[1].longitude,
                              BuildQuery(preferences, limit).bounding_box)
    /\ ScoreOf(1) >= MIN_SCORE * SCALE
    /\ Matches = <<>>

\* C8: total_candidates is the length of the input list.
C8_TotalIsInputCount == Done => result.total_candidates = Len(candidates)

\* C8 witness: two candidates went in, fewer entries came out, the total is 2.
C8_Witness ==
    /\ Done
    /\ Len(candidates) = 2 /\ Len(Matches) < 2
    /\ result.total_candidates = 2

\* the score of the scored profile with its verification flag cleared
UnverifiedTwinScore ==
    calculate_match_score([candidates[1] EXCEPT !.is_verified = "SomeFalse"],
                          preferences, weights).score

\* C9 as stated: a verified candidate scores strictly higher than its unverified
\* twin, for any preferences and weights.
C9_VerifiedStrictlyHigher ==
    (Scored /\ verified(candidates[1])) => score_out.score > UnverifiedTwinScore

\* C9 amended: a verified candidate never scores lower than its unverified twin,
\* and scores strictly higher when the verification weight is positive and the
\* twin's score is below the cap of 100.
C9_VerifiedHigherBelowCap ==
    (Scored /\ verified(candidates[1]))
        => /\ score_out.score >= UnverifiedTwinScore
           /\ (weights.verified > 0 /\ UnverifiedTwinScore < 100 * SCALE)
                  => score_out.score > UnverifiedTwinScore

\* C9 witness: a verified profile was scored under the default weights, its twin
\* scoring below the cap.
C9_Witness ==
    /\ Scored
    /\ verified(candidates[1])
    /\ weights = DefaultWeights
    /\ UnverifiedTwinScore < 100 * SCALE
    /\ score_out.score = UnverifiedTwinScore + 10 * SCALE

\* C10: in every age range and every height range (min < max, so that the range
\* has a midpoint apart from its edges), the value at the midpoint gets a
\* sub-score of at least 0.9 and a value at an edge one below 0.5.
C10_MidpointAndEdge ==
    Scored =>
        LET c == candidates[1]
            p == preferences
        IN  /\ p.min_age < p.max_age =>
                /\ 2 * c.age = p.min_age + p.max_age
                     => 10 * score_out.age_score >= 9 * SCALE
                /\ c.age \in {p.min_age, p.max_age} => 2 * score_out.age_score < SCALE
            /\ p.min_height_cm < p.max_height_cm =>
                /\ 2 * c.height_cm = p.min_height_cm + p.max_height_cm
                     => 10 * score_out.height_score >= 9 * SCALE
                /\ c.height_cm \in {p.min_height_cm, p.max_height_cm}
                     => 2 * score_out.height_score < SCALE

\* C11: for a degenerate age or height range (max - min <= 0, min > max
\* included) the sub-score is 1.0 whatever the candidate's value, and the scoring
\* call does not end in an error on account of such a range.
C11_DegenerateRangeScoresOne ==
    LET p == preferences
    IN  /\ Scored =>
            /\ p.max_age - p.min_age <= 0 => score_out.age_score = SCALE
            /\ p.max_height_cm - p.min_height_cm <= 0 => score_out.height_score = SCALE
        /\ pc = "score_panicked" =>
            \/ p.min_age + p.max_age >= U8_MOD
            \/ p.min_height_cm + p.max_height_cm >= U16_MOD

\* candidate i passes the filters and the minimum score: it is a survivor
Survives(i) == Passes(i) /\ MeetsMinScore(ScoreOf(i))

\* C13: the result has as many entries as the limit and the number of survivors
\* allow, and a survivor that scores strictly higher than some returned entry is
\* itself returned (as often as it survives): the cut is made on the ranked list.
C13_TruncateAfterRanking ==
    Done =>
        /\ Len(Matches) = Min(limit, Cardinality({i \in Indices : Survives(i)}))
        /\ \A i \in Indices :
               (Survives(i) /\ \E j \in Entries : Matches[j].match_score < ScoreOf(i))
                   => Cardinality({j \in Entries : Matches[j] = EntryOf(i)})
                        = Cardinality({k \in Indices : Survives(k) /\ EntryOf(k) = EntryOf(i)})

\* C13 witness: two survivors, the second scoring higher, limit 1: the second one
\* is the result.
C13_Witness ==
    /\ Done
    /\ Len(candidates) = 2 /\ limit = 1
    /\ Survives(1) /\ Survives(2)
    /\ ScoreOf(1) < ScoreOf(2)
    /\ Matches = <<EntryOf(2)>>

\* C16: the box calculate_bounding_box derives from a center and a radius >= 0
\* contains that center, the edges being part of the box.
C16_BoxContainsCenter ==
    geo_pc = "bbox_done" =>
        /\ geo_out.within
        /\ geo_out.box.min_lat <= geo_args.a[1] * KM_PER_DEGREE
        /\ geo_args.a[1] * KM_PER_DEGREE <= geo_out.box.max_lat
        /\ geo_out.box.min_lon <= geo_args.a[2] * KM_PER_DEGREE
        /\ geo_args.a[2] * KM_PER_DEGREE <= geo_out.box.max_lon

\* C16 witness: radius 0 at a pole: the box is the center alone, and the center
\* is within it.
C16_Witness ==
    /\ geo_pc = "bbox_done"
    /\ geo_args.radius_km = 0
    /\ geo_args.a[1] = 9000
    /\ geo_out.box.min_lat = geo_out.box.max_lat
    /\ geo_out.box.min_lon = geo_out.box.max_lon
    /\ geo_out.within

\* C17: haversine_distance gives the same distance in both directions, and less
\* than 10 metres (the tolerance of test_haversine_distance_zero) from a point to
\* itself.
C17_SymmetricAndZero ==
    geo_pc = "haversine_done" =>
        /\ geo_out.forward = geo_out.backward
        /\ geo_args.a = geo_args.b => geo_out.forward < 10

\* C17 witness: two points on different latitudes and longitudes near 60 degrees
\* north, a positive distance apart, the same in both directions.
C17_Witness ==
    /\ geo_pc = "haversine_done"
    /\ geo_args.a[1] # geo_args.b[1] /\ geo_args.a[2] # geo_args.b[2]
    /\ Cos(geo_args.a[1]) # Cos(geo_args.b[1])
    /\ geo_out.forward > 0
    /\ geo_out.forward = geo_out.backward

\* caller c's call has returned
CallDone(c) == call_pc[c] = "done"

\* what caller c's call returns when it runs alone, sequentially
AloneResult(c) ==
    find_matches(weights, calls[c].preferences, calls[c].candidates, calls[c].limit)

\* the entries returned to caller c can be attributed to distinct candidates of
\* its input so that entries of equal score and equal distance are in the order
\* of their candidates
TiesKeepInputOrder(c) ==
    LET ms == call_result[c].matches
        a == calls[c]
    IN  \E f \in [1..Len(ms) -> 1..Len(a.candidates)] :
            /\ \A j \in 1..Len(ms) :
                   <<ms[j]>> = EvaluateCandidate(a.candidates[f[j]], a.preferences,
                                                 BuildQuery(a.preferences, a.limit),
                                                 weights)
            /\ \A j, k \in 1..Len(ms) :
                   j < k =>
                       /\ f[j] # f[k]
                       /\ (/\ ms[j].match_score = ms[k].match_score
                           /\ ms[j].distance_km = ms[k].distance_km) => f[j] < f[k]

\* C12: two find_matches calls with the same preferences, candidates, weights and
\* limit return the same entries in the same order, and candidates of equal score
\* and equal distance keep their relative input order.
C12_DeterministicAndStable ==
    /\ \A c1, c2 \in Callers :
           (CallDone(c1) /\ CallDone(c2) /\ calls[c1] = calls[c2])
               => call_result[c1] = call_result[c2]
    /\ \A c \in Callers : CallDone(c) => TiesKeepInputOrder(c)

\* C12 witness: two calls with the same arguments, the candidates being twins of
\* equal score and distance, returned the same two entries, first candidate first.
C12_Witness ==
    /\ CallDone(1) /\ CallDone(2)
    /\ calls[1] = calls[2]
    /\ Len(calls[1].candidates) = 2
    /\ call_result[1] = call_result[2]
    /\ Len(call_result[1].matches) = 2
    /\ call_result[1].matches[1].match_score = call_result[1].matches[2].match_score
    /\ call_result[1].matches[1].distance_km = call_result[1].matches[2].distance_km
    /\ call_result[1].matches[1].user_id = calls[1].candidates[1].user_id
    /\ call_result[1].matches[2].user_id = calls[1].candidates[2].user_id
    /\ call_result[1].matches[1].user_id # call_result[1].matches[2].user_id

\* C14: under every interleaving of the concurrent calls, each call returns what
\* it returns when it runs alone, and the weights of the Matcher never change.
C14_NoInterference ==
    /\ [](\A c \in Callers : CallDone(c) => call_result[c] = AloneResult(c))
    /\ [][weights' = weights]_vars

\* C14 witness: the first call has returned its own result while the second, with
\* other arguments and another result, is part-way through its candidates.
C14_Witness ==
    /\ CallDone(1)
    /\ call_pc[2] = "called"
    /\ evaluated[2] # <<>> /\ Len(evaluated[2]) < Len(calls[2].candidates)
    /\ calls[1] # calls[2]
    /\ AloneResult(1) # AloneResult(2)
    /\ call_result[1].matches # <<>>
    /\ call_result[1] = AloneResult(1)

\* C15: whatever the order in which the per-candidate steps of a call complete,
\* the call returns the entries of the sequential pipeline: the survivors of a
\* left-to-right pass, sorted and cut to the limit.
C15_AnyOrderSameAsSequential ==
    \A c \in Callers :
        CallDone(c) =>
            LET a == calls[c]
            IN  call_result[c].matches =
                    Truncate(SortMatches(ScoredSurvivors(a.candidates, a.preferences,
                                                         BuildQuery(a.preferences, a.limit),
                                                         weights)),
                             a.limit)

\* C15 witness: a call evaluated its three candidates last one first, and returned
\* two entries of equal score and distance in input order.
C15_Witness ==
    /\ CallDone(1)
    /\ Len(calls[1].candidates) = 3
    /\ evaluated[1][1].index = 3
    /\ Len(call_result[1].matches) = 2
    /\ call_result[1].matches[1].match_score = call_result[1].matches[2].match_score
    /\ call_result[1].matches[1].distance_km = call_result[1].matches[2].distance_km
    /\ call_result[1].matches[1].user_id = calls[1].candidates[2].user_id
    /\ call_result[1].matches[2].user_id = calls[1].candidates[3].user_id

\* C18: when a fetch of the find-matches handler failed (seen-profile list,
\* requester profile, preferences or candidates), the matching core was not
\* invoked, or was invoked with an empty candidate list.
C18_NoCoreOnFailedFetch ==
    (last.kind = "find_matches" /\ last.failed # {})
        => (~last.core_invoked \/ last.core_candidates = <<>>)

\* C19: right after a record-event request that ended in success for requester
\* u, neither cache tier holds an entry under the key matches:u.
C19_CacheInvalidatedOnEvent ==
    (last.kind = "record_event" /\ last.outcome = "ok")
        => /\ l1_cache[CacheKeyMatches(last.user_id)] = Absent
           /\ redis[CacheKeyMatches(last.user_id)] = Absent

\* C20: a find-matches response for u contains no target t for which an event
\* (u, t) was recorded successfully before (the rows of seen_profiles are exactly
\* the events recorded successfully).
C20_RecordedTargetNeverReturned ==
    (last.kind = "find_matches" /\ last.outcome = "ok")
        => \A j \in 1..Len(last.matches) :
               <<last.user_id, last.matches[j]>> \notin seen_profiles

\* C21: calculate_match_score and find_matches finish without failure for every
\* well-typed input, and when min_age + max_age exceeds 255 or min_height_cm +
\* max_height_cm exceeds 65535 the midpoint used is the true (min + max) / 2.
\* Stated on ranges with min <= max, where the subtraction max - min stays in
\* the type: the call does not panic, and the sub-scores are those of the true
\* sum.
C21_TotalWithTrueMidpoint ==
    LET p == preferences
    IN  (p.min_age <= p.max_age /\ p.min_height_cm <= p.max_height_cm)
            => /\ pc \notin {"score_panicked", "find_panicked"}
               /\ Scored =>
                    /\ score_out.age_score =
                           TriangularScore(candidates[1].age, p.min_age + p.max_age,
                                           p.max_age - p.min_age)
                    /\ score_out.height_score =
                           TriangularScore(candidates[1].height_cm,
                                           p.min_height_cm + p.max_height_cm,
                                           p.max_height_cm - p.min_height_cm)

PrefDone == pc = "pref_done"

\* the hair term: 1 if no hair color is preferred or the candidate's is among
\* the preferred ones, else 0
HairTerm ==
    IF \/ preferences.preferred_hair_colors = <<>>
       \/ \E k \in 1..Len(preferences.preferred_hair_colors) :
              preferences.preferred_hair_colors[k] = candidates[1].hair_color
    THEN 1 ELSE 0

\* the number of entries of the candidate's sports list that the preferences name
SharedEntries ==
    Cardinality({i \in 1..Len(candidates[1].sports_preferences) :
                    \E k \in 1..Len(preferences.preferred_sports) :
                        preferences.preferred_sports[k] = candidates[1].sports_preferences[i]})

\* C22: calculate_preference_score returns (h + 2 * min(s, 5) / 5) / 3, h being the
\* hair term and s the number of shared sports entries, and the value is within
\* [0, 1].
C22_PreferenceScoreFormula ==
    PrefDone =>
        /\ score_out.pref_score =
               (HairTerm * SCALE + (2 * Min(SharedEntries, 5) * SCALE) \div 5) \div 3
        /\ 0 <= score_out.pref_score /\ score_out.pref_score <= SCALE

\* C22 witness: six shared sports and an accepted hair color: the sports term is
\* capped and the value is 1.0.
C22_Witness ==
    /\ PrefDone
    /\ SharedEntries = 6
    /\ HairTerm = 1
    /\ score_out.pref_score = SCALE

\* the labels of a list, as a set
LabelSet(s) == {s[i] : i \in 1..Len(s)}

\* the cardinality of the intersection of the two sports lists' label sets
SharedLabels ==
    Cardinality(LabelSet(candidates[1].sports_preferences)
                    \cap LabelSet(preferences.preferred_sports))

\* C23: the shared-sports count of the sports term and the length of the
\* returned shared_sports list equal the cardinality of the intersection of the
\* two lists' label sets, also when a list names a label more than once.
C23_SharedCountIsIntersection ==
    PrefDone =>
        /\ Len(score_out.shared_sports) = SharedLabels
        /\ score_out.pref_score =
               (HairTerm * SCALE + (2 * Min(SharedLabels, 5) * SCALE) \div 5) \div 3

\* the filter_map closure applied to a list that has passed the filters
RECURSIVE ScoreFiltered(_, _, _)
ScoreFiltered(cands, prefs, w) ==
    IF cands = <<>> THEN <<>>
    ELSE LET rest == ScoreFiltered(Tail(cands), prefs, w)
         IN  IF MeetsMinScore(calculate_match_score(Head(cands), prefs, w).score)
             THEN <<MakeScoredMatch(Head(cands), prefs, w)>> \o rest
             ELSE rest

\* the pipeline with the two filter stages swapped: matches_demographics over the
\* whole list, then matches_query_constraints over what is left
DemographicsFirstResult ==
    LET query == BuildQuery(preferences, limit)
        stage2 == SelectSeq(candidates, LAMBDA c : matches_demographics(c, preferences))
        stage1 == SelectSeq(stage2, LAMBDA c : matches_query_constraints(c, query))
    IN  [matches |-> Truncate(SortMatches(ScoreFiltered(stage1, preferences, weights)),
                              limit),
         total_candidates |-> Len(candidates)]

\* C24: the two filters commute: find_matches returns what the pipeline with
\* matches_demographics applied before matches_query_constraints returns.
C24_FiltersCommute == Done => result = DemographicsFirstResult

\* C24 witness: the first candidate is dropped by the demographic filter alone,
\* the second by the query filter alone, and the result is that of the swapped
\* pipeline.
C24_Witness ==
    /\ Done
    /\ Len(candidates) = 2
    /\ matches_query_constraints(candidates[1], BuildQuery(preferences, limit))
    /\ ~matches_demographics(candidates[1], preferences)
    /\ ~matches_query_constraints(candidates[2], BuildQuery(preferences, limit))
    /\ matches_demographics(candidates[2], preferences)
    /\ result = DemographicsFirstResult

\* entry j of the result carries the public fields of candidate i
CopiedFrom(j, i) ==
    LET m == Matches[j]
        c == candidates[i]
    IN  /\ m.user_id = c.user_id
        /\ m.name = c.name
        /\ m.age = c.age
        /\ m.height_cm = c.height_cm
        /\ m.hair_color = c.hair_color
        /\ m.gender = c.gender
        /\ m.image_file_ids = c.image_file_ids
        /\ m.description = c.description
        /\ m.is_verified = (c.is_verified = "SomeTrue")

\* C25: the returned entries correspond to distinct positions of the candidate
\* list, and each carries the user_id, name, age, height_cm, hair_color, gender,
\* image list, description and verification flag of its candidate.
C25_EntriesCopyDistinctCandidates ==
    Done => \E f \in [Entries -> Indices] :
                /\ \A j, k \in Entries : j # k => f[j] # f[k]
                /\ \A j \in Entries : CopiedFrom(j, f[j])

\* C25 witness: the same profile went in twice, with an image and a description,
\* and came out twice.
C25_Witness ==
    /\ Done
    /\ Len(candidates) = 2 /\ candidates[1] = candidates[2]
    /\ candidates[1].image_file_ids # <<>> /\ candidates[1].description # "None"
    /\ Len(Matches) = 2
    /\ CopiedFrom(1, 1) /\ CopiedFrom(2, 2)

\* the age or the height bounds of the preferences are inverted
InvertedBounds ==
    \/ preferences.min_age > preferences.max_age
    \/ preferences.min_height_cm > preferences.max_height_cm

\* C29: with min_age > max_age or min_height_cm > max_height_cm, find_matches
\* returns (it does not fail), the match list is empty, total_candidates is the
\* input count, and no candidate passes the filters into the scoring step.
C29_InvertedBoundsGiveEmptyResult ==
    InvertedBounds =>
        /\ pc # "find_panicked"
        /\ Done =>
            /\ Matches = <<>>
            /\ result.total_candidates = Len(candidates)
            /\ \A i \in Indices : ~Passes(i)

\* C29 witness: inverted age bounds, two candidates that the filters keep under
\* the base preferences, a positive limit: the result is empty, the total is 2.
C29_Witness ==
    /\ Done
    /\ preferences.min_age > preferences.max_age
    /\ Len(candidates) = 2 /\ limit > 0
    /\ \A i \in Indices :
           PassesFilters(candidates[i], BasePreferences, BuildQuery(BasePreferences, limit))
    /\ Matches = <<>>
    /\ result.total_candidates = 2

\* C26: a record-event request reports success exactly when the write to the
\* seen-profile store succeeded: a failure of the Appwrite event store or of the
\* cache invalidation leaves the response a success, and a failed seen-profile
\* write gives an error response and leaves both cache tiers and the table as
\* they were.
C26_SuccessIffSeenWritten ==
    [][last'.kind = "record_event" =>
          /\ last'.outcome = "ok" <=> "postgres" \in last'.done
          /\ "postgres" \in last'.failed =>
                /\ last'.outcome = "internal_error"
                /\ UNCHANGED <<l1_cache, redis, seen_profiles>>]_vars

\* C26 witness: the seen-profile write succeeded while the Appwrite write and the
\* Redis DEL failed, and the response is a success.
C26_Witness ==
    /\ last.kind = "record_event"
    /\ last.done = {"postgres"}
    /\ last.failed = {"appwrite", "redis"}
    /\ last.outcome = "ok"
    /\ <<last.user_id, last.target>> \in seen_profiles

LogIdx == 1..Len(cache_log)

\* client c's call has returned
Returned(c) == \E i \in LogIdx : cache_log[i].client = c /\ cache_log[i].ev = "return"

\* the positions in the log of the start and of the return of client c's call
StartIdx(c) == CHOOSE i \in LogIdx : cache_log[i].client = c /\ cache_log[i].ev = "start"
ReturnIdx(c) == CHOOSE i \in LogIdx : cache_log[i].client = c /\ cache_log[i].ev = "return"

\* client c's call of op has returned, with its outcome and value
ReturnedOp(c, op) == Returned(c) /\ cache_log[ReturnIdx(c)].op = op
Outcome(c) == cache_log[ReturnIdx(c)].outcome
Value(c) == cache_log[ReturnIdx(c)].value

\* the calls ran one after the other: each call returned before the next started
SequentialLog ==
    \A i \in LogIdx :
        (cache_log[i].ev = "start" /\ i < Len(cache_log))
            => cache_log[i + 1].client = cache_log[i].client

\* client m's set or delete is the last one that returned before client g's call
\* started
LastWriteBefore(m, g) ==
    /\ ReturnedOp(m, "set") \/ ReturnedOp(m, "delete")
    /\ ReturnIdx(m) < StartIdx(g)
    /\ \A m2 \in CacheClients \ {m} :
           (ReturnedOp(m2, "set") \/ ReturnedOp(m2, "delete"))
               => ~(ReturnIdx(m) < ReturnIdx(m2) /\ ReturnIdx(m2) < StartIdx(g))

\* C27: when the calls run one after the other, a get that follows a successful
\* set (gets alone in between) returns the value that was set, and a get that
\* follows a successful delete returns no value: it is a miss, or the error of
\* its own Redis GET.
C27_GetAfterSetAndDelete ==
    SequentialLog =>
        \A m, g \in CacheClients :
            (ReturnedOp(g, "get") /\ LastWriteBefore(m, g) /\ Outcome(m) = "ok")
                => /\ cache_log[ReturnIdx(m)].op = "set"
                       => Outcome(g) = "hit" /\ Value(g) = Value(m)
                   /\ cache_log[ReturnIdx(m)].op = "delete"
                       => Outcome(g) \in {"miss", "error"}

\* C27 witness: one after the other, a set succeeded, a get returned the value
\* set, a delete succeeded.
C27_Witness ==
    /\ SequentialLog
    /\ Len(cache_log) = 5
    /\ cache_log[2].op = "set" /\ cache_log[2].outcome = "ok"
    /\ cache_log[4].op = "get" /\ cache_log[4].outcome = "hit"
    /\ cache_log[4].value = NewerResult
    /\ cache_log[5].op = "delete"

\* no step of a set took place after the start of client d's call and before
\* the return of client g's call
NoSetBetween(d, g) ==
    \A i \in LogIdx :
        (StartIdx(d) < i /\ i < ReturnIdx(g)) => cache_log[i].op # "set"

\* C28: once a delete has returned successfully, a get that starts later returns
\* no value, provided no set ran from the start of the delete on; other gets may
\* have run interleaved with the delete.
C28_DeleteEffectiveUnderConcurrency ==
    \A d, g \in CacheClients :
        (/\ ReturnedOp(d, "delete") /\ Outcome(d) = "ok"
         /\ ReturnedOp(g, "get")
         /\ ReturnIdx(d) < StartIdx(g)
         /\ NoSetBetween(d, g))
            => Outcome(g) # "hit"

\* C30: after a set of v returned an error, a get that starts later does not
\* return v, unless another set call stored v.
C30_FailedSetLeavesCacheUnchanged ==
    \A s, g \in CacheClients :
        (/\ ReturnedOp(s, "set") /\ Outcome(s) = "error"
         /\ ReturnedOp(g, "get")
         /\ ReturnIdx(s) < StartIdx(g)
         /\ Outcome(g) = "hit" /\ Value(g) = Value(s))
            => \E s2 \in CacheClients \ {s} :
                   /\ cache_ops[s2].op = "set"
                   /\ cache_ops[s2].value = Value(s)

====
